---- MODULE Spec2Model ----
(***************************************************************************)
(* A model of the LLM gateway: the model registry of LLMRouterService      *)
(* (catalog load / hot reload, name resolution, fallback chain), the chat  *)
(* completion route (single-shot and SSE streaming), the usage ledger and  *)
(* the metrics registry.                                                   *)
(*                                                                         *)
(* Six specifications share the variables:                                 *)
(*   Spec          the gateway: chat requests, ledger and metrics.         *)
(*   SpecResolve   _resolve_model_identifier on every catalog of a family. *)
(*   SpecFallback  the fallback chain on every catalog of a family.        *)
(*   SpecRegistry  the reload route, as a whole handler, and resolutions.  *)
(*   SpecReload    a reload running statement by statement beside a        *)
(*                 request thread that resolves and builds its chain.      *)
(*   SpecLedger    UsageTrackerService: log_request and the two queries.   *)
(*   SpecAppend    log_request on several threads, each with a connection  *)
(*                 of its own on the one database file.                    *)
(*   SpecKwargs    generate_chat_completion: the arguments of the backend  *)
(*                 call.                                                   *)
(***************************************************************************)
EXTENDS Integers, Sequences, FiniteSets, TLC

VARIABLES
    available_models,        \* LLMRouterService.available_models: name -> model_config
    default_model_name,      \* LLMRouterService.default_model_name
    global_fallback_models,  \* LLMRouterService.global_fallback_models
    config_file,             \* the document at config_file_path
    plan,                    \* the last resolver call and its result
    reloader,                \* SpecReload: the reloading thread (pc and locals)
    reader,                  \* SpecReload: the request thread (pc, locals, what it read)
    snapshots,               \* SpecReload: the catalog before and after the reload
    request_logging_enabled, \* GatewaySettings.request_logging_enabled
    metrics_enabled,         \* GatewaySettings.metrics_enabled
    requests,                \* Spec: the chat requests (pc, body, response, stream)
    ledger,                  \* rows of request_logs, in insertion order
    request_observations,    \* MetricsService.record_request observations
    active_requests_gauge,   \* llm_gateway_active_requests: label -> value
    backend_calls,           \* litellm.completion invocations per request
    last_reload,             \* SpecRegistry: the last reload: registry before, outcome
    database_writable,       \* whether an INSERT into request_logs succeeds
    clock,                   \* SpecLedger: datetime.utcnow()
    ledger_call,             \* SpecLedger: the last call on the ledger and its result
    log_workers,             \* SpecAppend: the threads inside log_request
    database_lock,           \* SpecAppend: the threads holding SQLite's write lock
    completion_call          \* SpecKwargs: the arguments of the backend call

registry == <<available_models, default_model_name, global_fallback_models>>
vars == <<available_models, default_model_name, global_fallback_models, config_file,
          plan, reloader, reader, snapshots, request_logging_enabled, metrics_enabled,
          requests, ledger, request_observations, active_requests_gauge,
          backend_calls, last_reload, database_writable, clock, ledger_call,
                       log_workers, database_lock, completion_call>>

-----------------------------------------------------------------------------
(* Values *)

\* Python's None (an absent model name, an absent default_model).
None == "None"

\* The logical model names a catalog may hold, and a name no catalog holds.
ModelNames == {"A", "B", "C"}
Ghost == "ghost"

\* A sequence without repeated elements.
NoDuplicates(s) == \A i, j \in 1..Len(s) : i # j => s[i] # s[j]

\* The elements of a sequence.
Range(s) == {s[i] : i \in 1..Len(s)}

\* All sequences over S of length at most n.
SeqsUpTo(S, n) == UNION {[1..k -> S] : k \in 0..n}

-----------------------------------------------------------------------------
(* Resolver: LLMRouterService._resolve_model_identifier and                *)
(* _build_fallback_model_list                                              *)

\* The LiteLLM model string of a model_config.
ProviderTargetId(model_config) ==
    IF model_config.provider = "custom_openai"
    THEN "openai/" \o model_config.model_id
    ELSE model_config.model_id

\* The model_config returned beside an error (never read).
NoConfig == [name |-> None, provider |-> None, model_id |-> None, fallbacks |-> <<>>]

\* A resolver that forgets to substitute the default for an absent name.
ResolveWithoutDefault(requested_model, models, default) ==
    IF requested_model \notin DOMAIN models
    THEN [ok |-> FALSE, requested |-> requested_model, available |-> DOMAIN models,
          litellm_model_id |-> None, model_config |-> NoConfig]
    ELSE [ok |-> TRUE, requested |-> requested_model, available |-> DOMAIN models,
          litellm_model_id |-> ProviderTargetId(models[requested_model]),
          model_config |-> models[requested_model]]

\* A resolver that answers with the default model when the name is unknown.
ResolveUnknownAsDefault(requested_model, models, default) ==
    LET requested == IF requested_model \in DOMAIN models THEN requested_model
                     ELSE default
    IN  IF requested \notin DOMAIN models
        THEN [ok |-> FALSE, requested |-> requested, available |-> DOMAIN models,
              litellm_model_id |-> None, model_config |-> NoConfig]
        ELSE [ok |-> TRUE, requested |-> requested, available |-> DOMAIN models,
              litellm_model_id |-> ProviderTargetId(models[requested]),
              model_config |-> models[requested]]

\* _resolve_model_identifier: ok = FALSE is the ValueError, whose message
\* names the requested model and the available names.
ResolveModelIdentifier(requested_model, models, default) ==
    LET requested == IF requested_model = None THEN default ELSE requested_model
    IN  IF requested \notin DOMAIN models
        THEN [ok |-> FALSE, requested |-> requested, available |-> DOMAIN models,
              litellm_model_id |-> None, model_config |-> NoConfig]
        ELSE [ok |-> TRUE, requested |-> requested, available |-> DOMAIN models,
              litellm_model_id |-> ProviderTargetId(models[requested]),
              model_config |-> models[requested]]

\* A first loop that passes a name it does not know on to the backend as it is.
RECURSIVE OwnFallbackIdsUnchecked(_, _, _)
OwnFallbackIdsUnchecked(fallback_names, models, fallback_model_ids) ==
    IF fallback_names = <<>> THEN fallback_model_ids
    ELSE LET fallback_name == Head(fallback_names)
         IN  OwnFallbackIdsUnchecked(
                 Tail(fallback_names), models,
                 IF fallback_name \in DOMAIN models
                 THEN Append(fallback_model_ids, ProviderTargetId(models[fallback_name]))
                 ELSE Append(fallback_model_ids, fallback_name))

\* The first loop of _build_fallback_model_list: the model's own fallbacks.
RECURSIVE OwnFallbackIds(_, _, _)
OwnFallbackIds(fallback_names, models, fallback_model_ids) ==
    IF fallback_names = <<>> THEN fallback_model_ids
    ELSE LET fallback_name == Head(fallback_names)
         IN  OwnFallbackIds(
                 Tail(fallback_names), models,
                 IF fallback_name \in DOMAIN models
                 THEN Append(fallback_model_ids, ProviderTargetId(models[fallback_name]))
                 ELSE fallback_model_ids)

\* The second loop of _build_fallback_model_list: the global fallbacks.
RECURSIVE AddGlobalFallbackIds(_, _, _)
AddGlobalFallbackIds(global_names, models, fallback_model_ids) ==
    IF global_names = <<>> THEN fallback_model_ids
    ELSE LET global_fallback == Head(global_names)
             global_id == ProviderTargetId(models[global_fallback])
         IN  AddGlobalFallbackIds(
                 Tail(global_names), models,
                 IF /\ global_fallback \in DOMAIN models
                    /\ global_id \notin Range(fallback_model_ids)
                 THEN Append(fallback_model_ids, global_id)
                 ELSE fallback_model_ids)

\* A chain builder that walks the global fallbacks before the model's own.
BuildGlobalFallbacksFirst(model_config, models, global_fallbacks) ==
    OwnFallbackIds(model_config.fallbacks, models,
                   AddGlobalFallbackIds(global_fallbacks, models, <<>>))

\* _build_fallback_model_list
BuildFallbackModelList(model_config, models, global_fallbacks) ==
    AddGlobalFallbackIds(global_fallbacks, models,
                         OwnFallbackIds(model_config.fallbacks, models, <<>>))

\* generate_chat_completion up to the backend call: the resolution and the
\* model / fallbacks arguments of litellm.completion (no "fallbacks" key
\* when the list is empty).
CompletionPlan(model, models, default, global_fallbacks) ==
    LET resolved == ResolveModelIdentifier(model, models, default)
    IN  [ok |-> resolved.ok,
         requested |-> resolved.requested,
         model |-> resolved.litellm_model_id,
         model_config |-> resolved.model_config,
         fallbacks |-> IF resolved.ok
                       THEN BuildFallbackModelList(resolved.model_config, models,
                                                   global_fallbacks)
                       ELSE <<>>]

-----------------------------------------------------------------------------
(* Registry load: LLMRouterService._load_model_configuration               *)

ModelConfig(name, provider, model_id, fallbacks) ==
    [name |-> name, provider |-> provider, model_id |-> model_id,
     fallbacks |-> fallbacks]

\* An item of the document's "models" list: a mapping (a model_config, whose
\* name may be absent) or something else, on which .get raises.
MappingItem(model_config) == [is_mapping |-> TRUE, model_config |-> model_config]
OtherItem == [is_mapping |-> FALSE, model_config |-> NoConfig]

\* The document at config_file_path: missing, not parseable as YAML, empty
\* (yaml.safe_load returns None) or a mapping.
Document(kind, models, default_model, global_fallbacks) ==
    [kind |-> kind, models |-> models, default_model |-> default_model,
     global_fallbacks |-> global_fallbacks]

EmptyCatalog == [n \in {} |-> NoConfig]

\* The loop of lines 74-77 from a given map on: it stops at the first item
\* that is no mapping, with what it has stored so far.
RECURSIVE LoadModels(_, _)
LoadModels(items, models) ==
    IF items = <<>> THEN [raised |-> None, models |-> models]
    ELSE LET item == Head(items)
         IN  IF ~item.is_mapping
             THEN [raised |-> "AttributeError", models |-> models]
             ELSE LoadModels(
                      Tail(items),
                      IF item.model_config.name # None
                      THEN (item.model_config.name :> item.model_config) @@ models
                      ELSE models)

\* A loader that adds the models of the document to those the registry
\* holds, without clearing the registry first.
LoadModelConfigurationMerging(file, models, default, global_fallbacks) ==
    LET loaded == LoadModels(file.models, models)
    IN  IF file.kind # "mapping" \/ loaded.raised # None
        THEN [raised |-> "Exception", available_models |-> models,
              default_model_name |-> default,
              global_fallback_models |-> global_fallbacks]
        ELSE [raised |-> None, available_models |-> loaded.models,
              default_model_name |-> file.default_model,
              global_fallback_models |-> file.global_fallbacks]

\* _load_model_configuration on a registry holding (models, default,
\* global_fallbacks): the exception raised, if any, and the registry after.
LoadModelConfiguration(file, models, default, global_fallbacks) ==
    LET loaded == LoadModels(file.models, EmptyCatalog)
    IN  IF file.kind = "missing"
        THEN [raised |-> "FileNotFoundError", available_models |-> models,
              default_model_name |-> default,
              global_fallback_models |-> global_fallbacks]
        ELSE IF file.kind = "unparseable"
        THEN [raised |-> "YAMLError", available_models |-> models,
              default_model_name |-> default,
              global_fallback_models |-> global_fallbacks]
        ELSE IF file.kind = "empty"
        THEN [raised |-> "AttributeError", available_models |-> EmptyCatalog,
              default_model_name |-> default,
              global_fallback_models |-> global_fallbacks]
        ELSE IF loaded.raised # None
        THEN [raised |-> loaded.raised, available_models |-> loaded.models,
              default_model_name |-> default,
              global_fallback_models |-> global_fallbacks]
        ELSE [raised |-> None, available_models |-> loaded.models,
              default_model_name |-> file.default_model,
              global_fallback_models |-> file.global_fallbacks]

\* The documents the configuration file holds in turn.
DocumentV1 ==
    Document("mapping",
             <<MappingItem(ModelConfig("A", "openai", "gpt", <<"B">>)),
               MappingItem(ModelConfig("B", "custom_openai", "gpt", <<>>))>>,
             "A", <<"B">>)
DocumentV2 ==
    Document("mapping",
             <<MappingItem(ModelConfig("B", "openai", "openai/gpt", <<"C", "C">>)),
               MappingItem(ModelConfig(None, "openai", "gpt", <<>>)),
               MappingItem(ModelConfig("C", "custom_openai", "gpt", <<Ghost>>))>>,
             "C", <<"C">>)
DocumentMissing == Document("missing", <<>>, None, <<>>)
DocumentUnparseable == Document("unparseable", <<>>, None, <<>>)
DocumentEmpty == Document("empty", <<>>, None, <<>>)
DocumentMalformed ==
    Document("mapping",
             <<MappingItem(ModelConfig("C", "openai", "gpt", <<>>)), OtherItem,
               MappingItem(ModelConfig("A", "openai", "gpt", <<>>))>>,
             "C", <<>>)
ConfigDocuments == {DocumentV1, DocumentV2, DocumentMissing, DocumentUnparseable,
                    DocumentEmpty, DocumentMalformed}

-----------------------------------------------------------------------------
(* The values the variables of the other specifications rest at *)

NoPlan == [op |-> "none", arg |-> None, ok |-> FALSE, requested |-> None,
           model |-> None, model_config |-> NoConfig, fallbacks |-> <<>>,
           available |-> {}]

ResolverIdle == plan = NoPlan

ReloadIdle ==
    /\ reloader = <<>>
    /\ reader = <<>>
    /\ snapshots = <<>>

LedgerIdle ==
    /\ database_writable = TRUE
    /\ clock = 0
    /\ ledger_call = <<>>
    /\ log_workers = <<>>
    /\ database_lock = {}
    /\ completion_call = <<>>

GatewayIdle ==
    /\ LedgerIdle
    /\ request_logging_enabled = TRUE
    /\ metrics_enabled = TRUE
    /\ requests = <<>>
    /\ ledger = <<>>
    /\ request_observations = <<>>
    /\ active_requests_gauge = <<>>
    /\ backend_calls = <<>>
    /\ last_reload = <<>>
    /\ config_file = <<>>

gateway_vars == <<request_logging_enabled, metrics_enabled, requests, ledger,
                  request_observations, active_requests_gauge, backend_calls,
                  last_reload, config_file, database_writable, clock, ledger_call,
                       log_workers, database_lock, completion_call>>
reload_vars == <<reloader, reader, snapshots>>

-----------------------------------------------------------------------------
(* SpecResolve: _resolve_model_identifier on every catalog of a family *)

\* Bounds of the catalog families.
MaxFallbacks == 2
MaxGlobalFallbacks == 2

Providers == {"openai", "custom_openai", "gemini"}
ModelIds == {"gpt", "openai/gpt"}
FallbackNames == ModelNames \cup {Ghost}

\* The catalogs over a set of names whose entries carry no fallbacks, each
\* entry bound to one (provider, model_id) pair of bindings.
PlainCatalogs(names, bindings) ==
    UNION {{[n \in present |-> ModelConfig(n, b[n][1], b[n][2], <<>>)] :
              b \in [present -> bindings]} :
           present \in SUBSET names}

RequestedNames == ModelNames \cup {Ghost, None}

InitResolve ==
    /\ available_models \in PlainCatalogs(ModelNames, Providers \X ModelIds)
    /\ default_model_name \in RequestedNames
    /\ global_fallback_models = <<>>
    /\ ResolverIdle /\ ReloadIdle /\ GatewayIdle

\* A call of _resolve_model_identifier(requested_model).
ResolveCall(requested_model) ==
    LET resolved == ResolveModelIdentifier(requested_model, available_models,
                                           default_model_name)
    IN  /\ plan' = [op |-> "resolve", arg |-> requested_model, ok |-> resolved.ok,
                    requested |-> resolved.requested,
                    model |-> resolved.litellm_model_id,
                    model_config |-> resolved.model_config, fallbacks |-> <<>>,
                    available |-> resolved.available]
        /\ UNCHANGED <<registry, gateway_vars, reload_vars>>

NextResolve == \E requested_model \in RequestedNames : ResolveCall(requested_model)

SpecResolve == InitResolve /\ [][NextResolve]_vars

\* C10: resolving with no model name returns the same (provider target id,
\* model entry) pair, or the same failure, as resolving with the catalog's
\* default model name; a custom_openai entry resolves to "openai/" followed by
\* its model_id and an entry of any other provider to its model_id unchanged.
C10_ResolveNoneIsResolveDefault ==
    /\ (plan.op = "resolve" /\ plan.arg = None) =>
          LET by_default == ResolveModelIdentifier(default_model_name, available_models,
                                                   default_model_name)
          IN  /\ plan.ok = by_default.ok
              /\ plan.model = by_default.litellm_model_id
              /\ plan.model_config = by_default.model_config
    /\ (plan.op = "resolve" /\ plan.ok) =>
          /\ plan.requested \in DOMAIN available_models
          /\ plan.model_config = available_models[plan.requested]
          /\ plan.model = IF plan.model_config.provider = "custom_openai"
                          THEN "openai/" \o plan.model_config.model_id
                          ELSE plan.model_config.model_id

\* C10's case: no name was given and the default, a custom_openai entry,
\* was resolved to its prefixed target.
C10_Witness ==
    /\ plan.op = "resolve" /\ plan.arg = None /\ plan.ok
    /\ plan.requested = default_model_name
    /\ plan.model_config.provider = "custom_openai"
    /\ plan.model = "openai/gpt"

\* The name a call resolves: the one given, or the default when none is given.
EffectiveName(requested_model) ==
    IF requested_model = None THEN default_model_name ELSE requested_model

\* C11: for every requested name that is not a key of the catalog (no name
\* given and the default absent or not in the catalog included), resolve
\* fails with the model-not-found error, the error lists exactly the model
\* names of the catalog, and no target is returned.
C11_UnknownNameFailsWithCatalogNames ==
    (plan.op = "resolve" /\ EffectiveName(plan.arg) \notin DOMAIN available_models) =>
        /\ ~plan.ok
        /\ plan.available = DOMAIN available_models
        /\ plan.model = None
        /\ plan.model_config = NoConfig

\* C11's case: no name was given, the default is not in a catalog of two
\* models, and the call failed listing those two.
C11_Witness ==
    /\ plan.op = "resolve" /\ plan.arg = None
    /\ default_model_name = Ghost
    /\ DOMAIN available_models = {"A", "B"}
    /\ ~plan.ok /\ plan.available = {"A", "B"}

-----------------------------------------------------------------------------
(* SpecFallback: the fallback chain of a request on every catalog of a family *)

\* The catalogs in which the requested model "A" has any binding and any
\* list of fallbacks, beside any plain entries for the other names (whose
\* own fallbacks the chain of "A" never reads).
FallbackBindings == {<<"openai", "gpt">>, <<"openai", "openai/gpt">>,
                     <<"custom_openai", "gpt">>}

FallbackCatalogs ==
    {[n \in DOMAIN others \cup {"A"} |->
         IF n = "A" THEN ModelConfig("A", b[1], b[2], fallbacks) ELSE others[n]] :
       b \in FallbackBindings,
       fallbacks \in SeqsUpTo(FallbackNames, MaxFallbacks),
       others \in PlainCatalogs(ModelNames \ {"A"}, FallbackBindings)}

InitFallback ==
    /\ available_models \in FallbackCatalogs
    /\ default_model_name = "A"
    /\ global_fallback_models \in SeqsUpTo(FallbackNames, MaxGlobalFallbacks)
    /\ ResolverIdle /\ ReloadIdle /\ GatewayIdle

\* generate_chat_completion(model=...) up to the arguments of the backend call.
PlanCall(model) ==
    LET p == CompletionPlan(model, available_models, default_model_name,
                            global_fallback_models)
    IN  /\ plan' = [op |-> "plan", arg |-> model, ok |-> p.ok,
                    requested |-> p.requested, model |-> p.model,
                    model_config |-> p.model_config, fallbacks |-> p.fallbacks,
                    available |-> DOMAIN available_models]
        /\ UNCHANGED <<registry, gateway_vars, reload_vars>>

NextFallback == PlanCall("A")

SpecFallback == InitFallback /\ [][NextFallback]_vars

\* The targets of the names of a list that are keys of the catalog, in the
\* order of the list.
KnownTargets(names) ==
    LET IsKnown(n) == n \in DOMAIN available_models
        known == SelectSeq(names, IsKnown)
    IN  [i \in 1..Len(known) |-> ProviderTargetId(available_models[known[i]])]

\* The position of the first occurrence of x in s.
FirstIndex(s, x) == CHOOSE i \in 1..Len(s) : s[i] = x /\ \A j \in 1..(i - 1) : s[j] # x

\* C6: the list returned by _build_fallback_model_list contains no provider
\* target id twice, whatever the entry's fallbacks list names.
C6_ChainHasNoDuplicateTarget ==
    (plan.op = "plan" /\ plan.ok) => NoDuplicates(plan.fallbacks)

\* C7: the fallback chain handed to the backend never contains the primary
\* target id of the same request.
C7_ChainExcludesPrimary ==
    (plan.op = "plan" /\ plan.ok) => plan.model \notin Range(plan.fallbacks)

\* C8: the fallback chain is the targets of the entry's own fallbacks in
\* their configured order, followed by the targets of the global fallbacks,
\* in their configured order, that are not already present; with
\* A.fallbacks = [B] and global fallbacks [C] the chain of A is
\* [target(B), target(C)], and with no fallbacks of its own the chain is the
\* global fallbacks' targets.
C8_ChainIsOwnThenGlobal ==
    (plan.op = "plan" /\ plan.ok) =>
      LET chain == plan.fallbacks
          own == KnownTargets(plan.model_config.fallbacks)
          global == KnownTargets(global_fallback_models)
          rest == SubSeq(chain, Len(own) + 1, Len(chain))
      IN  /\ Len(chain) >= Len(own)
          /\ SubSeq(chain, 1, Len(own)) = own
          /\ NoDuplicates(rest)
          /\ Range(rest) = Range(global) \ Range(own)
          /\ \A i, j \in 1..Len(rest) :
                i < j => FirstIndex(global, rest[i]) < FirstIndex(global, rest[j])
          /\ (/\ plan.model_config.fallbacks = <<"B">>
              /\ global_fallback_models = <<"C">>
              /\ {"B", "C"} \subseteq DOMAIN available_models
              /\ ProviderTargetId(available_models["B"])
                   # ProviderTargetId(available_models["C"]))
             => chain = <<ProviderTargetId(available_models["B"]),
                          ProviderTargetId(available_models["C"])>>
          /\ (plan.model_config.fallbacks = <<>> /\ NoDuplicates(global))
             => chain = global

\* C8's case: the chain of A with fallbacks [B] under global fallbacks [C].
C8_Witness ==
    /\ plan.op = "plan" /\ plan.ok
    /\ plan.model_config.fallbacks = <<"B">>
    /\ global_fallback_models = <<"C">>
    /\ plan.fallbacks = <<"openai/gpt", "gpt">>

\* C9: a fallback name, per-model or global, that is not a key of the catalog
\* is skipped: the plan is built (no error), every element of the chain is
\* the target id of a model of the catalog, and the primary target is the
\* requested model's own.
C9_UnknownFallbackSkipped ==
    plan.op = "plan" =>
      /\ plan.ok
      /\ plan.model = ProviderTargetId(available_models["A"])
      /\ Range(plan.fallbacks) \subseteq
            {ProviderTargetId(available_models[m]) : m \in DOMAIN available_models}

\* C9's case: the chain was built though both the model's fallbacks and the
\* global fallbacks name a model the catalog does not hold.
C9_Witness ==
    /\ plan.op = "plan" /\ plan.ok
    /\ Ghost \in Range(plan.model_config.fallbacks)
    /\ Ghost \in Range(global_fallback_models)
    /\ "C" \in Range(plan.model_config.fallbacks) /\ "C" \notin DOMAIN available_models
    /\ Len(plan.fallbacks) = 1

-----------------------------------------------------------------------------
(* Spec: the gateway. Chat requests (create_chat_completion and the SSE    *)
(* generator), the usage ledger, the metrics registry and the reload route *)

\* The chunks a backend stream yields at most.
MaxChunks == 2

\* Two requests, each on a worker thread of its own.
RequestIds == {1, 2}
GaugeLabels == ModelNames \cup {Ghost, None}

\* What request.get_json() gives: it raises, it returns a falsy payload, a
\* payload without messages, or a payload with messages, an optional model
\* and the stream flag.
Body(kind, model, stream) == [kind |-> kind, model |-> model, stream |-> stream]
RequestBodies ==
    {Body("raises", None, FALSE), Body("falsy", None, FALSE),
     Body("no_messages", None, FALSE)}
    \cup {Body("ok", model, stream) : model \in {None, "A", Ghost}, stream \in BOOLEAN}

\* The whitespace-separated words of the content of a backend chunk.
ChunkWords == {0, 4}

\* What the backend stream yields: a chunk whose delta carries no content
\* (a role or finish chunk, or an empty string), or one whose content has so
\* many words (0: a content of whitespace only).
Chunk(content, words) == [content |-> content, words |-> words]
NoContentChunk == Chunk(FALSE, 0)
BackendChunks == {NoContentChunk} \cup {Chunk(TRUE, words) : words \in ChunkWords}

\* The SSE events the caller receives: a data event per chunk, the [DONE]
\* terminator, the stream_error event.
ChunkEvent(chunk) == [type |-> "chunk", chunk |-> chunk]
DoneEvent == [type |-> "done", chunk |-> NoContentChunk]
ErrorEvent == [type |-> "error", chunk |-> NoContentChunk]

\* A count that takes a token per four words and none for the remainder.
ChunkTokensByWords(chunk) == IF chunk.content THEN chunk.words \div 4 ELSE 0

\* The tokens generate_sse_stream counts for a chunk.
ChunkTokens(chunk) == IF chunk.content THEN (chunk.words \div 4) + 1 ELSE 0

NoResponse == [status |-> 0, type |-> None, code |-> None]
ErrorResponse(status, type, code) == [status |-> status, type |-> type, code |-> code]

IdleRequest ==
    [pc |-> "idle", body |-> Body("falsy", None, FALSE), effective_model |-> None,
     resolved |-> "not_tried", target |-> None, fallbacks |-> <<>>,
     response |-> NoResponse, events |-> <<>>, total_completion_tokens |-> 0,
     aborted |-> FALSE, backend |-> "not_called", backend_chunks |-> <<>>]

\* model_name or "unknown"
OrUnknown(model_name) == IF model_name = None THEN "unknown" ELSE model_name

\* A log_request that lets the error of a failed INSERT out to its caller.
LogRequestPropagates == request_logging_enabled /\ ~database_writable

\* Whether log_request raises: the try / except Exception around the INSERT
\* and the commit logs the error and swallows it.
LogRequestRaises == FALSE

\* UsageTrackerService.log_request with the arguments the chat routes pass:
\* one row appended, unless logging is off or the INSERT fails.
LogRequest(rows, r, model_name, completion_tokens, status_code, cached, provider_model, error_message) ==
    IF ~request_logging_enabled THEN rows
    ELSE IF ~database_writable THEN rows
    ELSE Append(rows, [id |-> Len(rows) + 1, req |-> r, model_name |-> model_name,
                       provider_model |-> provider_model,
                       completion_tokens |-> completion_tokens,
                       status_code |-> status_code, cached |-> cached,
                       error_message |-> error_message])

\* MetricsService.record_request: one observation, unless metrics are off.
RecordRequest(observations, r, model_name, status, cached, completion_tokens) ==
    IF ~metrics_enabled THEN observations
    ELSE Append(observations, [req |-> r, model_name |-> model_name, status |-> status,
                               cached |-> cached,
                               completion_tokens |-> completion_tokens])

\* MetricsService.increment_active_requests / decrement_active_requests
IncrementActive(gauge, model_name) ==
    IF metrics_enabled THEN [gauge EXCEPT ![model_name] = @ + 1] ELSE gauge
DecrementActive(gauge, model_name) ==
    IF metrics_enabled THEN [gauge EXCEPT ![model_name] = @ - 1] ELSE gauge

\* _log_error_request: a ledger row and an error observation.
LogErrorRequest(r, model_name, status_code, error_message) ==
    /\ ledger' = LogRequest(ledger, r, OrUnknown(model_name), 0, status_code, FALSE,
                            None, error_message)
    /\ request_observations' =
          RecordRequest(request_observations, r, OrUnknown(model_name), "error",
                        FALSE, 0)

registry_vars == <<available_models, default_model_name, global_fallback_models,
                   config_file, last_reload>>
settings_vars == <<request_logging_enabled, metrics_enabled, database_writable>>
other_spec_vars == <<plan, reloader, reader, snapshots, clock, ledger_call,
                       log_workers, database_lock, completion_call>>

\* create_chat_completion up to its first suspension: the body checks, the
\* gauge increment, and then either the streaming Response (whose generator
\* has not run yet) or the single-shot call up to litellm.completion.
ReceiveChat(r, body) ==
    /\ requests[r].pc = "idle"
    /\ LET model_name == body.model
           effective_model == IF model_name = None THEN default_model_name
                              ELSE model_name
           p == CompletionPlan(model_name, available_models, default_model_name,
                               global_fallback_models)
       IN  CASE body.kind = "raises" ->
                 /\ LogErrorRequest(r, None, 500, "BadRequest")
                 /\ requests' = [requests EXCEPT ![r] =
                        [@ EXCEPT !.pc = "done", !.body = body,
                                  !.response = ErrorResponse(500, "server_error",
                                                             "internal_error")]]
                 /\ UNCHANGED <<active_requests_gauge, backend_calls>>
             [] body.kind = "falsy" ->
                 /\ requests' = [requests EXCEPT ![r] =
                        [@ EXCEPT !.pc = "done", !.body = body,
                                  !.response = ErrorResponse(400, "invalid_request_error",
                                                             "missing_body")]]
                 /\ UNCHANGED <<ledger, request_observations, active_requests_gauge,
                                backend_calls>>
             [] body.kind = "no_messages" ->
                 /\ requests' = [requests EXCEPT ![r] =
                        [@ EXCEPT !.pc = "done", !.body = body,
                                  !.response = ErrorResponse(400, "invalid_request_error",
                                                             "missing_messages")]]
                 /\ UNCHANGED <<ledger, request_observations, active_requests_gauge,
                                backend_calls>>
             [] body.kind = "ok" /\ body.stream ->
                 \* the Response is returned and the finally clause of line 157
                 \* decrements the gauge incremented at line 122
                 /\ active_requests_gauge' =
                        DecrementActive(IncrementActive(active_requests_gauge,
                                                        effective_model),
                                        effective_model)
                 /\ requests' = [requests EXCEPT ![r] =
                        [@ EXCEPT !.pc = "gen_pending", !.body = body,
                                  !.effective_model = effective_model,
                                  !.response = ErrorResponse(200, None, None)]]
                 /\ UNCHANGED <<ledger, request_observations, backend_calls>>
             [] body.kind = "ok" /\ ~body.stream /\ ~p.ok ->
                 \* ValueError: finally, then the handler of line 160
                 /\ active_requests_gauge' =
                        DecrementActive(IncrementActive(active_requests_gauge,
                                                        effective_model),
                                        effective_model)
                 /\ LogErrorRequest(r, model_name, 400, "ValueError")
                 /\ requests' = [requests EXCEPT ![r] =
                        [@ EXCEPT !.pc = "done", !.body = body,
                                  !.effective_model = effective_model,
                                  !.resolved = "not_found",
                                  !.response = ErrorResponse(400, "invalid_request_error",
                                                             "invalid_model")]]
                 /\ UNCHANGED backend_calls
             [] body.kind = "ok" /\ ~body.stream /\ p.ok ->
                 /\ active_requests_gauge' =
                        IncrementActive(active_requests_gauge, effective_model)
                 /\ backend_calls' = [backend_calls EXCEPT ![r] = @ + 1]
                 /\ requests' = [requests EXCEPT ![r] =
                        [@ EXCEPT !.pc = "in_backend", !.body = body,
                                  !.effective_model = effective_model,
                                  !.resolved = "found", !.target = p.model,
                                  !.fallbacks = p.fallbacks]]
                 /\ UNCHANGED <<ledger, request_observations>>
    /\ UNCHANGED <<registry_vars, settings_vars, other_spec_vars>>

\* litellm.completion returns to the single-shot request: the response is
\* formatted, logged (_log_successful_request) and returned.
BackendReturns(r, cached, completion_tokens) ==
    /\ requests[r].pc = "in_backend"
    /\ IF LogRequestRaises
       THEN \* an exception out of _log_successful_request reaches the
            \* handler of line 176, whose own log_request raises as well
            /\ UNCHANGED <<ledger, request_observations>>
            /\ requests' = [requests EXCEPT ![r] =
                  [@ EXCEPT !.pc = "done", !.backend = "returned",
                            !.response = ErrorResponse(500, "server_error",
                                                       "internal_error")]]
       ELSE /\ ledger' = LogRequest(ledger, r, requests[r].effective_model,
                                    completion_tokens, 200, cached,
                                    requests[r].target, None)
            /\ request_observations' =
                  RecordRequest(request_observations, r, requests[r].effective_model,
                                "success", cached, completion_tokens)
            /\ requests' = [requests EXCEPT ![r] =
                  [@ EXCEPT !.pc = "done", !.backend = "returned",
                            !.response = ErrorResponse(200, None, None),
                            !.total_completion_tokens = completion_tokens]]
    /\ active_requests_gauge' =
          DecrementActive(active_requests_gauge, requests[r].effective_model)
    /\ UNCHANGED <<backend_calls, registry_vars, settings_vars, other_spec_vars>>

\* What litellm.completion raises: an exception that is a ValueError (a
\* json.JSONDecodeError or a UnicodeDecodeError on the provider's answer, a
\* ValueError of the library) or one that is not.
BackendErrors == {"ValueError", "Exception"}

\* The except clause that catches the exception of the single-shot path:
\* except ValueError (line 160) comes before except Exception (line 176).
HandlerResponse(error) ==
    IF error = "ValueError"
    THEN ErrorResponse(400, "invalid_request_error", "invalid_model")
    ELSE ErrorResponse(500, "server_error", "internal_error")

\* A single-shot path that calls the backend a second time when the first
\* call raised.
BackendRaisesWithRetry(r, error) ==
    /\ requests[r].pc = "in_backend"
    /\ active_requests_gauge' =
          DecrementActive(active_requests_gauge, requests[r].effective_model)
    /\ LogErrorRequest(r, requests[r].body.model, HandlerResponse(error).status, error)
    /\ backend_calls' = [backend_calls EXCEPT ![r] = @ + 1]
    /\ requests' = [requests EXCEPT ![r] =
          [@ EXCEPT !.pc = "done", !.backend = "raised",
                    !.response = HandlerResponse(error)]]
    /\ UNCHANGED <<registry_vars, settings_vars, other_spec_vars>>

\* litellm.completion raises in the single-shot request: finally, then the
\* handler of line 160 or of line 176, which logs the payload's model name.
BackendRaises(r, error) ==
    /\ requests[r].pc = "in_backend"
    /\ active_requests_gauge' =
          DecrementActive(active_requests_gauge, requests[r].effective_model)
    /\ LogErrorRequest(r, requests[r].body.model, HandlerResponse(error).status, error)
    /\ requests' = [requests EXCEPT ![r] =
          [@ EXCEPT !.pc = "done", !.backend = "raised",
                    !.response = HandlerResponse(error)]]
    /\ UNCHANGED <<backend_calls, registry_vars, settings_vars, other_spec_vars>>

\* The except / finally clauses of generate_sse_stream: the error event, the
\* error row (no token count is passed on) and the gauge decrement.
StreamFails(r, resolved, calls, error_message) ==
    /\ LogErrorRequest(r, requests[r].effective_model, 500, error_message)
    /\ active_requests_gauge' =
          DecrementActive(active_requests_gauge, requests[r].effective_model)
    /\ backend_calls' = [backend_calls EXCEPT ![r] = @ + calls]
    /\ requests' = [requests EXCEPT ![r] =
          [@ EXCEPT !.pc = "done", !.resolved = resolved,
                    !.events = Append(@, ErrorEvent)]]

\* The WSGI server starts the generator: generate_chat_completion(stream=True)
\* resolves the model against the catalog of that moment and calls the backend.
GeneratorStarts(r, backend_raises) ==
    /\ requests[r].pc = "gen_pending"
    /\ LET p == CompletionPlan(requests[r].body.model, available_models,
                               default_model_name, global_fallback_models)
       IN  IF ~p.ok THEN StreamFails(r, "not_found", 0, "ValueError")
           ELSE IF backend_raises THEN StreamFails(r, "found", 1, "BackendError")
           ELSE /\ backend_calls' = [backend_calls EXCEPT ![r] = @ + 1]
                /\ requests' = [requests EXCEPT ![r] =
                       [@ EXCEPT !.pc = "streaming", !.resolved = "found",
                                 !.backend = "streamed",
                                 !.target = p.model, !.fallbacks = p.fallbacks]]
                /\ UNCHANGED <<ledger, request_observations, active_requests_gauge>>
    /\ UNCHANGED <<registry_vars, settings_vars, other_spec_vars>>

\* The backend stream yields a chunk: its tokens are counted and the SSE
\* event is yielded.
StreamChunk(r, chunk) ==
    /\ requests[r].pc = "streaming"
    /\ Len(requests[r].backend_chunks) < MaxChunks
    /\ requests' = [requests EXCEPT ![r] =
          [@ EXCEPT !.backend_chunks = Append(@, chunk),
                    !.events = Append(@, ChunkEvent(chunk)),
                    !.total_completion_tokens = @ + ChunkTokens(chunk)]]
    /\ UNCHANGED <<ledger, request_observations, active_requests_gauge, backend_calls,
                   registry_vars, settings_vars, other_spec_vars>>

\* The backend stream ends: [DONE], the success row and observation, finally.
StreamEnds(r) ==
    /\ requests[r].pc = "streaming"
    /\ ledger' = LogRequest(ledger, r, requests[r].effective_model,
                            requests[r].total_completion_tokens, 200, FALSE, None, None)
    /\ request_observations' =
          RecordRequest(request_observations, r, requests[r].effective_model,
                        "success", FALSE, requests[r].total_completion_tokens)
    /\ active_requests_gauge' =
          DecrementActive(active_requests_gauge, requests[r].effective_model)
    /\ requests' = [requests EXCEPT ![r] =
          [@ EXCEPT !.pc = "done", !.events = Append(@, DoneEvent)]]
    /\ UNCHANGED <<backend_calls, registry_vars, settings_vars, other_spec_vars>>

\* The backend stream raises between two chunks.
StreamRaises(r) ==
    /\ requests[r].pc = "streaming"
    /\ StreamFails(r, "found", 0, "BackendError")
    /\ UNCHANGED <<registry_vars, settings_vars, other_spec_vars>>

\* The caller goes away while the generator is suspended at the yield of a
\* chunk: GeneratorExit is no Exception, so only the finally clause runs.
ClientAborts(r) ==
    /\ requests[r].pc = "streaming"
    /\ requests[r].events # <<>>
    /\ active_requests_gauge' =
          DecrementActive(active_requests_gauge, requests[r].effective_model)
    /\ requests' = [requests EXCEPT ![r] = [@ EXCEPT !.pc = "done", !.aborted = TRUE]]
    /\ UNCHANGED <<ledger, request_observations, backend_calls, registry_vars,
                   settings_vars, other_spec_vars>>

\* The application after create_flask_application: the registry loaded from
\* the first document, an empty ledger, no metrics yet.
Init ==
    /\ LET loaded == LoadModelConfiguration(DocumentV1, EmptyCatalog, None, <<>>)
       IN  /\ available_models = loaded.available_models
           /\ default_model_name = loaded.default_model_name
           /\ global_fallback_models = loaded.global_fallback_models
    /\ config_file = DocumentV1
    /\ last_reload = <<>>
    /\ request_logging_enabled = TRUE
    /\ metrics_enabled = TRUE
    /\ database_writable \in BOOLEAN
    /\ clock = 0
    /\ ledger_call = <<>>
    /\ log_workers = <<>>
    /\ database_lock = {}
    /\ completion_call = <<>>
    /\ requests = [r \in RequestIds |-> IdleRequest]
    /\ ledger = <<>>
    /\ request_observations = <<>>
    /\ active_requests_gauge = [l \in GaugeLabels |-> 0]
    /\ backend_calls = [r \in RequestIds |-> 0]
    /\ ResolverIdle /\ ReloadIdle

Next ==
    \/ \E r \in RequestIds, body \in RequestBodies : ReceiveChat(r, body)
    \/ \E r \in RequestIds, cached \in BOOLEAN, completion_tokens \in {0, 3} :
          BackendReturns(r, cached, completion_tokens)
    \/ \E r \in RequestIds, error \in BackendErrors : BackendRaises(r, error)
    \/ \E r \in RequestIds, backend_raises \in BOOLEAN : GeneratorStarts(r, backend_raises)
    \/ \E r \in RequestIds, chunk \in BackendChunks : StreamChunk(r, chunk)
    \/ \E r \in RequestIds : StreamEnds(r)
    \/ \E r \in RequestIds : StreamRaises(r)
    \/ \E r \in RequestIds : ClientAborts(r)

Spec == Init /\ [][Next]_vars

\* The ledger rows and the request observations of a request.
RowsOf(r) == LET IsOfRequest(row) == row.req = r IN SelectSeq(ledger, IsOfRequest)
ObservationsOf(r) ==
    LET IsOfRequest(o) == o.req = r IN SelectSeq(request_observations, IsOfRequest)

\* The request has reached a terminal outcome (the caller did not go away).
Finished(r) == requests[r].pc = "done" /\ ~requests[r].aborted

\* The request named (or defaulted to) a model the catalog does not hold.
ModelNotFound(r) ==
    /\ Finished(r)
    /\ requests[r].body.kind = "ok"
    /\ requests[r].resolved = "not_found"

\* C3: every chat request that reaches a terminal outcome (success, a
\* rejection for a missing body or missing messages or an unknown model, a
\* backend failure, a stream that ends or fails) has exactly one usage
\* record in the ledger and exactly one request observation in the metrics.
C3_OneRecordPerOutcome ==
    \A r \in RequestIds :
      Finished(r) => Len(RowsOf(r)) = 1 /\ Len(ObservationsOf(r)) = 1

\* C4: a chat request, streaming or single-shot, whose model name is not in
\* the catalog ends with HTTP 400, type invalid_request_error, code
\* invalid_model, and the completion backend is never invoked for it.
C4_UnknownModelIsInvalidRequest ==
    \A r \in RequestIds :
      ModelNotFound(r) =>
        /\ requests[r].response = ErrorResponse(400, "invalid_request_error",
                                                "invalid_model")
        /\ backend_calls[r] = 0

\* C5: a request naming a model that is not in the catalog adds exactly one
\* record to the ledger, with status code 400 and the error message set,
\* whether or not it asked for streaming.
C5_UnknownModelLedgerRecord ==
    \A r \in RequestIds :
      ModelNotFound(r) =>
        /\ Len(RowsOf(r)) = 1
        /\ RowsOf(r)[1].status_code = 400
        /\ RowsOf(r)[1].error_message # None

\* The last SSE event the caller received.
LastEvent(r) == requests[r].events[Len(requests[r].events)]

\* The backend stream of the request was consumed to its end.
StreamEnded(r) ==
    /\ requests[r].pc = "done"
    /\ requests[r].events # <<>>
    /\ LastEvent(r) = DoneEvent

\* The backend stream of the request raised after it had been opened.
StreamBroke(r) ==
    /\ requests[r].pc = "done"
    /\ requests[r].backend = "streamed"
    /\ requests[r].events # <<>>
    /\ LastEvent(r) = ErrorEvent

\* C12: a streaming request whose backend stream yields n chunks and ends
\* normally gives the caller exactly those n chunk events in backend order,
\* then exactly one [DONE] event and nothing after it; the ledger gains
\* exactly one record for it, with status 200, cached false and, when at
\* least one chunk carried content, a completion-token count above 0.
C12_StreamDeliversChunksThenDone ==
    \A r \in RequestIds :
      /\ \A i \in 1..Len(requests[r].events) :
            requests[r].events[i].type = "done" => i = Len(requests[r].events)
      /\ StreamEnded(r) =>
            /\ Len(requests[r].events) = Len(requests[r].backend_chunks) + 1
            /\ \A i \in 1..Len(requests[r].backend_chunks) :
                  requests[r].events[i] = ChunkEvent(requests[r].backend_chunks[i])
            /\ database_writable =>
                  /\ Len(RowsOf(r)) = 1
                  /\ RowsOf(r)[1].status_code = 200
                  /\ RowsOf(r)[1].cached = FALSE
                  /\ (\E i \in 1..Len(requests[r].backend_chunks) :
                         requests[r].backend_chunks[i].content)
                        => RowsOf(r)[1].completion_tokens > 0

\* C12's case: a stream of a chunk without content and a chunk of
\* whitespace content ended, and its record counts one token.
C12_Witness ==
    \E r \in RequestIds :
      /\ StreamEnded(r)
      /\ database_writable
      /\ requests[r].backend_chunks = <<NoContentChunk, Chunk(TRUE, 0)>>
      /\ requests[r].events = <<ChunkEvent(NoContentChunk), ChunkEvent(Chunk(TRUE, 0)),
                                DoneEvent>>
      /\ Len(RowsOf(r)) = 1
      /\ RowsOf(r)[1].completion_tokens = 1

\* C13: a streaming response the caller aborts after k chunks still gets
\* one usage record in the ledger, carrying the completion tokens counted
\* over those k chunks.
C13_AbortedStreamIsRecorded ==
    \A r \in RequestIds :
      (requests[r].aborted /\ database_writable) =>
        /\ Len(RowsOf(r)) = 1
        /\ RowsOf(r)[1].completion_tokens = requests[r].total_completion_tokens

\* C14: when the backend stream raises after k chunks, the caller gets one
\* error event, as the last event, and the ledger record of the request
\* carries the completion tokens counted over those k chunks.
C14_StreamErrorKeepsPartialTokens ==
    \A r \in RequestIds :
      StreamBroke(r) =>
        /\ \A i \in 1..Len(requests[r].events) :
              requests[r].events[i].type = "error" <=> i = Len(requests[r].events)
        /\ database_writable =>
              /\ Len(RowsOf(r)) = 1
              /\ RowsOf(r)[1].completion_tokens = requests[r].total_completion_tokens

\* The request has incremented the gauge and has not finished.
InFlight(r) == requests[r].pc \in {"in_backend", "gen_pending", "streaming"}

\* C15: for every model the in-flight gauge equals the number of requests
\* for it that have started and not finished, so it is never negative and
\* is 0 when no request is in flight.
C15_GaugeCountsInFlight ==
    \A label \in GaugeLabels :
      active_requests_gauge[label] =
        Cardinality({r \in RequestIds :
                       InFlight(r) /\ requests[r].effective_model = label})

\* C16: when the write to the ledger fails, log_request returns normally and
\* a single-shot request whose backend call succeeded returns its 200
\* response, the one it returns with a working ledger.
C16_LedgerOutageKeepsSuccess ==
    /\ ~LogRequestRaises
    /\ \A r \in RequestIds :
         (requests[r].pc = "done" /\ ~requests[r].body.stream
            /\ requests[r].backend = "returned") =>
           requests[r].response = ErrorResponse(200, None, None)

\* C16's case: the database is not writable, the backend answered a
\* single-shot request, no row was written and the response is 200.
C16_Witness ==
    \E r \in RequestIds :
      /\ ~database_writable
      /\ requests[r].pc = "done" /\ ~requests[r].body.stream
      /\ requests[r].backend = "returned"
      /\ ledger = <<>>
      /\ requests[r].response.status = 200


\* C23: the gateway never retries on its own: for every chat request,
\* whatever its outcome, the completion backend is invoked at most once,
\* exactly once when the model name resolved and never when it did not.
C23_BackendInvokedAtMostOnce ==
    \A r \in RequestIds :
      /\ backend_calls[r] <= 1
      /\ requests[r].resolved = "found" => backend_calls[r] = 1
      /\ requests[r].resolved # "found" => backend_calls[r] = 0

\* A single-shot request and a streaming request whose backend call failed,
\* each with its one call.
C23_Witness ==
    /\ Finished(1) /\ requests[1].backend = "raised" /\ backend_calls[1] = 1
    /\ Finished(2) /\ requests[2].body.stream /\ requests[2].resolved = "found"
    /\ StreamBroke(2) /\ backend_calls[2] = 1

\* C24: the ledger row and the request observation of a failed request
\* carry the resolved model name: a request whose resolution completed is
\* recorded under its effective model (the default when the payload names
\* none), never under the sentinel "unknown".
C24_FailedRecordCarriesResolvedModel ==
    \A r \in RequestIds :
      (Finished(r) /\ requests[r].resolved = "found") =>
        /\ \A i \in 1..Len(RowsOf(r)) :
             RowsOf(r)[i].model_name = requests[r].effective_model
        /\ \A i \in 1..Len(ObservationsOf(r)) :
             ObservationsOf(r)[i].model_name = requests[r].effective_model

\* C25: every failure of the backend, single-shot (the call raised) or
\* streaming (the call or the stream raised), reaches the caller as a
\* server error (single-shot: HTTP 500, type server_error) and its ledger
\* row has a status code of 500 or more; it is never an invalid-request
\* error.
C25_BackendFailureIsServerError ==
    \A r \in RequestIds :
      /\ (Finished(r) /\ requests[r].backend = "raised") =>
            /\ requests[r].response.status = 500
            /\ requests[r].response.type = "server_error"
            /\ \A i \in 1..Len(RowsOf(r)) : RowsOf(r)[i].status_code >= 500
      /\ (Finished(r) /\ requests[r].resolved = "found" /\ StreamBroke(r)) =>
            \A i \in 1..Len(RowsOf(r)) : RowsOf(r)[i].status_code >= 500

\* C28: a chat request with no body, or without messages, is rejected with
\* HTTP 400 and an invalid_request_error (missing_body, missing_messages)
\* before any resolution, and the backend is not invoked for it.
C28_MissingBodyOrMessagesIs400 ==
    \A r \in RequestIds :
      (Finished(r) /\ requests[r].body.kind # "ok") =>
        /\ requests[r].response.status = 400
        /\ requests[r].response.type = "invalid_request_error"
        /\ requests[r].response.code \in {"missing_body", "missing_messages"}
        /\ requests[r].resolved = "not_tried"
        /\ backend_calls[r] = 0

-----------------------------------------------------------------------------
(* SpecRegistry: the reload route as a whole handler, between resolutions *)

\* POST /models/reload with the configuration file holding a document.
ReloadRoute(document) ==
    LET loaded == LoadModelConfiguration(document, available_models,
                                         default_model_name, global_fallback_models)
    IN  /\ config_file' = document
        /\ plan' = NoPlan
        /\ available_models' = loaded.available_models
        /\ default_model_name' = loaded.default_model_name
        /\ global_fallback_models' = loaded.global_fallback_models
        /\ last_reload' =
              [called |-> TRUE,
               before |-> [available_models |-> available_models,
                           default_model_name |-> default_model_name,
                           global_fallback_models |-> global_fallback_models],
               raised |-> loaded.raised,
               status |-> IF loaded.raised = None THEN 200 ELSE 500,
               code |-> IF loaded.raised = None THEN None
                        ELSE IF loaded.raised = "FileNotFoundError"
                        THEN "file_not_found" ELSE "reload_failed",
               models_count |-> IF loaded.raised = None
                                THEN Cardinality(DOMAIN loaded.available_models)
                                ELSE 0,
               default_model |-> IF loaded.raised = None
                                 THEN loaded.default_model_name ELSE None]
        /\ UNCHANGED <<requests, ledger, request_observations, active_requests_gauge,
                       backend_calls, settings_vars, reload_vars, clock, ledger_call,
                       log_workers, database_lock, completion_call>>

NoReload ==
    [called |-> FALSE,
     before |-> [available_models |-> EmptyCatalog, default_model_name |-> None,
                 global_fallback_models |-> <<>>],
     raised |-> None, status |-> 0, code |-> None, models_count |-> 0,
     default_model |-> None]

\* The registry after the constructor has loaded the first document.
InitRegistry ==
    /\ LET loaded == LoadModelConfiguration(DocumentV1, EmptyCatalog, None, <<>>)
       IN  /\ available_models = loaded.available_models
           /\ default_model_name = loaded.default_model_name
           /\ global_fallback_models = loaded.global_fallback_models
    /\ config_file = DocumentV1
    /\ last_reload = NoReload
    /\ request_logging_enabled = TRUE
    /\ metrics_enabled = TRUE
    /\ requests = <<>>
    /\ ledger = <<>>
    /\ request_observations = <<>>
    /\ active_requests_gauge = <<>>
    /\ backend_calls = <<>>
    /\ LedgerIdle
    /\ ResolverIdle /\ ReloadIdle

\* generate_chat_completion(model=...) up to the arguments of the backend
\* call, on the registry as the last reload left it.
PlanAfterReload(model) ==
    LET p == CompletionPlan(model, available_models, default_model_name,
                            global_fallback_models)
    IN  /\ plan' = [op |-> "plan", arg |-> model, ok |-> p.ok,
                    requested |-> p.requested, model |-> p.model,
                    model_config |-> p.model_config, fallbacks |-> p.fallbacks,
                    available |-> DOMAIN available_models]
        /\ UNCHANGED <<registry, config_file, last_reload, requests, ledger,
                       request_observations, active_requests_gauge, backend_calls,
                       settings_vars, reload_vars, clock, ledger_call,
                       log_workers, database_lock, completion_call>>

NextRegistry ==
    \/ \E document \in ConfigDocuments : ReloadRoute(document)
    \/ \E model \in RequestedNames : PlanAfterReload(model)

SpecRegistry == InitRegistry /\ [][NextRegistry]_vars

\* C2: a reload that fails (file missing, unparseable, empty, or a models
\* list with a malformed entry) leaves available_models, default_model_name
\* and global_fallback_models as they were before the call, so every model
\* that resolved before still resolves to the same target.
C2_FailedReloadKeepsRegistry ==
    (last_reload.called /\ last_reload.raised # None) =>
      /\ available_models = last_reload.before.available_models
      /\ default_model_name = last_reload.before.default_model_name
      /\ global_fallback_models = last_reload.before.global_fallback_models
      /\ \A m \in DOMAIN last_reload.before.available_models :
            LET now == ResolveModelIdentifier(m, available_models, default_model_name)
            IN  /\ now.ok
                /\ now.litellm_model_id =
                     ProviderTargetId(last_reload.before.available_models[m])


\* The named entries of the document's models list.
NamedEntries(document) ==
    {document.models[i].model_config : i \in
        {k \in 1..Len(document.models) :
            document.models[k].is_mapping /\ document.models[k].model_config.name # None}}

\* The last reload succeeded.
ReloadSucceeded == last_reload.called /\ last_reload.raised = None

\* The registry is the content of the document at config_file_path.
RegistryIsSource ==
    /\ DOMAIN available_models = {entry.name : entry \in NamedEntries(config_file)}
    /\ \A n \in DOMAIN available_models : available_models[n] \in NamedEntries(config_file)
    /\ default_model_name = config_file.default_model
    /\ global_fallback_models = config_file.global_fallbacks

\* C29: after a successful reload the catalog is exactly the content of
\* the new source: a model absent from the source does not resolve, the
\* reported models_count is the number of models in the catalog and
\* default_model is the source's default; a successful reload of an
\* unchanged source leaves the registry as it was.
C29_ReloadInstallsNewSource ==
    /\ [](ReloadSucceeded =>
            /\ RegistryIsSource
            /\ \A m \in (ModelNames \cup {Ghost}) \ DOMAIN available_models :
                 ~ResolveModelIdentifier(m, available_models, default_model_name).ok
            /\ last_reload.models_count = Cardinality(DOMAIN available_models)
            /\ last_reload.default_model = config_file.default_model)
    /\ [][(ReloadSucceeded /\ ReloadSucceeded' /\ config_file' = config_file)
            => registry' = registry]_vars

\* A reload has replaced a catalog that held model A by a source without
\* it, and a request for A has failed to resolve since.
C29_Witness ==
    /\ ReloadSucceeded
    /\ "A" \in DOMAIN last_reload.before.available_models
    /\ "A" \notin DOMAIN available_models
    /\ last_reload.models_count = 2
    /\ last_reload.default_model = "C"
    /\ plan # NoPlan /\ plan.arg = "A" /\ ~plan.ok

-----------------------------------------------------------------------------
(* SpecReload: _load_model_configuration statement by statement, beside a  *)
(* request thread that resolves its model and builds its fallback chain    *)

Snapshot(models, default, global_fallbacks) ==
    [available_models |-> models, default_model_name |-> default,
     global_fallback_models |-> global_fallbacks]

\* The registry a complete load of a document gives.
SnapshotOf(document) ==
    LET loaded == LoadModelConfiguration(document, EmptyCatalog, None, <<>>)
    IN  Snapshot(loaded.available_models, loaded.default_model_name,
                 loaded.global_fallback_models)

IdleReloader == [pc |-> "idle", config_data |-> DocumentMissing, index |-> 0]
IdleReader ==
    [pc |-> "idle", requested_model |-> None, model_config |-> NoConfig,
     litellm_model_id |-> None, fallback_names |-> <<>>, global_names |-> <<>>,
     fallback_model_ids |-> <<>>, outcome |-> None,
     seen_models |-> {}, seen_default |-> {}, seen_globals |-> {}]

\* The registry holds the first document; the file has been edited (or
\* not) and a reload and a request are about to run.
InitReload ==
    /\ available_models = SnapshotOf(DocumentV1).available_models
    /\ default_model_name = SnapshotOf(DocumentV1).default_model_name
    /\ global_fallback_models = SnapshotOf(DocumentV1).global_fallback_models
    /\ config_file \in {DocumentV1, DocumentV2}
    /\ snapshots = [old |-> SnapshotOf(DocumentV1), new |-> SnapshotOf(config_file)]
    /\ reloader = IdleReloader
    /\ reader = IdleReader
    /\ plan = NoPlan
    /\ request_logging_enabled = TRUE
    /\ metrics_enabled = TRUE
    /\ requests = <<>>
    /\ ledger = <<>>
    /\ request_observations = <<>>
    /\ active_requests_gauge = <<>>
    /\ backend_calls = <<>>
    /\ last_reload = <<>>
    /\ LedgerIdle

reload_frame == <<config_file, snapshots, plan, request_logging_enabled, metrics_enabled,
                  requests, ledger, request_observations, active_requests_gauge,
                  backend_calls, last_reload, database_writable, clock, ledger_call,
                       log_workers, database_lock, completion_call>>

\* Lines 67-71: the file exists and parses; config_data is the thread's own.
ReloadParses ==
    /\ reloader.pc = "idle"
    /\ config_file.kind = "mapping"
    /\ reloader' = [reloader EXCEPT !.pc = "models", !.config_data = config_file,
                                    !.index = 0]
    /\ UNCHANGED <<registry, reader, reload_frame>>

\* Line 73: self.available_models = {}
ReloadClears ==
    /\ reloader.pc = "models" /\ reloader.index = 0
    /\ available_models' = EmptyCatalog
    /\ reloader' = [reloader EXCEPT !.index = 1]
    /\ UNCHANGED <<default_model_name, global_fallback_models, reader, reload_frame>>

\* Lines 74-77: one turn of the loop.
ReloadStoresModel ==
    /\ reloader.pc = "models"
    /\ reloader.index \in 1..Len(reloader.config_data.models)
    /\ LET item == reloader.config_data.models[reloader.index]
       IN  IF ~item.is_mapping
           THEN /\ reloader' = [reloader EXCEPT !.pc = "raised"]
                /\ UNCHANGED available_models
           ELSE /\ reloader' = [reloader EXCEPT !.index = @ + 1]
                /\ available_models' =
                      IF item.model_config.name # None
                      THEN (item.model_config.name :> item.model_config)
                             @@ available_models
                      ELSE available_models
    /\ UNCHANGED <<default_model_name, global_fallback_models, reader, reload_frame>>

\* Line 79: self.default_model_name = ...
ReloadSetsDefault ==
    /\ reloader.pc = "models"
    /\ reloader.index > Len(reloader.config_data.models)
    /\ default_model_name' = reloader.config_data.default_model
    /\ reloader' = [reloader EXCEPT !.pc = "globals"]
    /\ UNCHANGED <<available_models, global_fallback_models, reader, reload_frame>>

\* Line 80: self.global_fallback_models = ...
ReloadSetsGlobals ==
    /\ reloader.pc = "globals"
    /\ global_fallback_models' = reloader.config_data.global_fallbacks
    /\ reloader' = [reloader EXCEPT !.pc = "done"]
    /\ UNCHANGED <<available_models, default_model_name, reader, reload_frame>>

\* Lines 123-124: an absent name is replaced by self.default_model_name.
ReaderStarts(model) ==
    /\ reader.pc = "idle"
    /\ reader' = [reader EXCEPT
          !.pc = "check",
          !.requested_model = IF model = None THEN default_model_name ELSE model,
          !.seen_default = IF model = None THEN {default_model_name} ELSE {}]
    /\ UNCHANGED <<registry, reloader, reload_frame>>

\* Lines 126-130: requested_model not in self.available_models
ReaderChecks ==
    /\ reader.pc = "check"
    /\ reader' = [reader EXCEPT
          !.seen_models = @ \cup {available_models},
          !.pc = IF reader.requested_model \in DOMAIN available_models
                 THEN "lookup" ELSE "done",
          !.outcome = IF reader.requested_model \in DOMAIN available_models
                      THEN None ELSE "ValueError"]
    /\ UNCHANGED <<registry, reloader, reload_frame>>

\* Lines 132-146: self.available_models[requested_model], the target id and
\* the entry's own fallbacks.
ReaderLooksUp ==
    /\ reader.pc = "lookup"
    /\ reader' =
          IF reader.requested_model \notin DOMAIN available_models
          THEN [reader EXCEPT !.seen_models = @ \cup {available_models},
                              !.pc = "done", !.outcome = "KeyError"]
          ELSE [reader EXCEPT
                  !.seen_models = @ \cup {available_models},
                  !.pc = "own",
                  !.model_config = available_models[reader.requested_model],
                  !.litellm_model_id =
                      ProviderTargetId(available_models[reader.requested_model]),
                  !.fallback_names = available_models[reader.requested_model].fallbacks]
    /\ UNCHANGED <<registry, reloader, reload_frame>>

\* Line 150: fallback_name in self.available_models
ReaderChecksOwn ==
    /\ reader.pc = "own" /\ reader.fallback_names # <<>>
    /\ reader' =
          IF Head(reader.fallback_names) \in DOMAIN available_models
          THEN [reader EXCEPT !.seen_models = @ \cup {available_models},
                              !.pc = "own_lookup"]
          ELSE [reader EXCEPT !.seen_models = @ \cup {available_models},
                              !.fallback_names = Tail(@)]
    /\ UNCHANGED <<registry, reloader, reload_frame>>

\* Lines 151-155: self.available_models[fallback_name] and the append.
ReaderLooksUpOwn ==
    /\ reader.pc = "own_lookup"
    /\ LET fallback_name == Head(reader.fallback_names)
       IN  reader' =
             IF fallback_name \notin DOMAIN available_models
             THEN [reader EXCEPT !.seen_models = @ \cup {available_models},
                                 !.pc = "done", !.outcome = "KeyError"]
             ELSE [reader EXCEPT
                     !.seen_models = @ \cup {available_models},
                     !.pc = "own",
                     !.fallback_names = Tail(@),
                     !.fallback_model_ids =
                         Append(@, ProviderTargetId(available_models[fallback_name]))]
    /\ UNCHANGED <<registry, reloader, reload_frame>>

\* Line 158: the loop over self.global_fallback_models starts.
ReaderReadsGlobals ==
    /\ reader.pc = "own" /\ reader.fallback_names = <<>>
    /\ reader' = [reader EXCEPT !.pc = "global",
                                !.global_names = global_fallback_models,
                                !.seen_globals = {global_fallback_models}]
    /\ UNCHANGED <<registry, reloader, reload_frame>>

\* Line 159: global_fallback in self.available_models
ReaderChecksGlobal ==
    /\ reader.pc = "global" /\ reader.global_names # <<>>
    /\ reader' =
          IF Head(reader.global_names) \in DOMAIN available_models
          THEN [reader EXCEPT !.seen_models = @ \cup {available_models},
                              !.pc = "global_lookup"]
          ELSE [reader EXCEPT !.seen_models = @ \cup {available_models},
                              !.global_names = Tail(@)]
    /\ UNCHANGED <<registry, reloader, reload_frame>>

\* Lines 160-165: self.available_models[global_fallback] and the append.
ReaderLooksUpGlobal ==
    /\ reader.pc = "global_lookup"
    /\ LET global_fallback == Head(reader.global_names)
           global_id == ProviderTargetId(available_models[global_fallback])
       IN  reader' =
             IF global_fallback \notin DOMAIN available_models
             THEN [reader EXCEPT !.seen_models = @ \cup {available_models},
                                 !.pc = "done", !.outcome = "KeyError"]
             ELSE [reader EXCEPT
                     !.seen_models = @ \cup {available_models},
                     !.pc = "global",
                     !.global_names = Tail(@),
                     !.fallback_model_ids =
                         IF global_id \in Range(@) THEN @ ELSE Append(@, global_id)]
    /\ UNCHANGED <<registry, reloader, reload_frame>>

\* Line 167: the chain is returned.
ReaderReturns ==
    /\ reader.pc = "global" /\ reader.global_names = <<>>
    /\ reader' = [reader EXCEPT !.pc = "done", !.outcome = "ok"]
    /\ UNCHANGED <<registry, reloader, reload_frame>>

NextReload ==
    \/ ReloadParses
    \/ ReloadClears
    \/ ReloadStoresModel
    \/ ReloadSetsDefault
    \/ ReloadSetsGlobals
    \/ \E model \in RequestedNames : ReaderStarts(model)
    \/ ReaderChecks
    \/ ReaderLooksUp
    \/ ReaderChecksOwn
    \/ ReaderLooksUpOwn
    \/ ReaderReadsGlobals
    \/ ReaderChecksGlobal
    \/ ReaderLooksUpGlobal
    \/ ReaderReturns

SpecReload == InitReload /\ [][NextReload]_vars

\* C1: while a reload runs beside request resolution, everything a resolve /
\* fallback-chain build reads of the registry (the model map, the default
\* model, the global fallbacks) is the complete old catalog or the complete
\* new one: never an empty or partly filled map, never a mix of the two.
C1_ReaderSeesOneSnapshot ==
    \E s \in {snapshots.old, snapshots.new} :
      /\ reader.seen_models \subseteq {s.available_models}
      /\ reader.seen_default \subseteq {s.default_model_name}
      /\ reader.seen_globals \subseteq {s.global_fallback_models}

-----------------------------------------------------------------------------
(* SpecLedger: UsageTrackerService on its own: log_request with every     *)
(* argument, get_recent_requests behind GET /usage/recent, and            *)
(* get_usage_summary                                                       *)

\* The log_request calls of a behaviour.
MaxAppends == 2

\* The upper bound of the limit of GET /usage/recent.
RecentCap == 200

\* A nullable number: NULL, or a value.
Null == <<>>
Some(x) == <<x>>
OrZero(nullable) == IF nullable = Null THEN 0 ELSE nullable[1]

Min(a, b) == IF a <= b THEN a ELSE b
Max(a, b) == IF a >= b THEN a ELSE b

\* n / d rounded to the nearest integer.
RoundDiv(n, d) == (2 * n + d) \div (2 * d)

\* request_metadata: None, a dict (body: its items), or the TEXT column's
\* JSON string of a dict.
NoMetadata == [kind |-> "none", body |-> ""]
MetadataDict(body) == [kind |-> "dict", body |-> body]
MetadataText(body) == [kind |-> "text", body |-> body]
EmptyDict == MetadataDict("")

\* json.dumps(request_metadata) if request_metadata else None
StoredMetadata(request_metadata) ==
    IF request_metadata.kind = "dict" /\ request_metadata # EmptyDict
    THEN MetadataText(request_metadata.body)
    ELSE NoMetadata

\* The keyword arguments of a log_request call. Costs are in 1/10000 USD.
LogArgs(model_name, tokens, cost_usd, latency_ms, status_code, cached, api_key_hash, provider_model, error_message, request_metadata) ==
    [model_name |-> model_name, prompt_tokens |-> tokens[1],
     completion_tokens |-> tokens[2], total_tokens |-> tokens[3],
     cost_usd |-> cost_usd, latency_ms |-> latency_ms, status_code |-> status_code,
     cached |-> cached, api_key_hash |-> api_key_hash,
     provider_model |-> provider_model, error_message |-> error_message,
     request_metadata |-> request_metadata]

LedgerArgs ==
    {LogArgs("A", <<10, 5, 15>>, Some(25), 100, 200, FALSE, "key1", "gpt", None,
             NoMetadata),
     LogArgs("B", <<10, 5, 15>>, Null, 0, 200, TRUE, None, "openai/gpt", None,
             MetadataDict("k: v")),
     LogArgs("unknown", <<0, 0, 0>>, Null, 50, 500, FALSE, "key1", None, "boom",
             EmptyDict)}

\* The row the INSERT of log_request writes.
RequestLogRow(id, timestamp, args) ==
    [id |-> id, timestamp |-> timestamp, api_key_hash |-> args.api_key_hash,
     model_name |-> args.model_name, provider_model |-> args.provider_model,
     prompt_tokens |-> args.prompt_tokens,
     completion_tokens |-> args.completion_tokens,
     total_tokens |-> args.total_tokens, cost_usd |-> args.cost_usd,
     latency_ms |-> args.latency_ms, status_code |-> args.status_code,
     cached |-> IF args.cached THEN 1 ELSE 0,
     error_message |-> args.error_message,
     request_metadata |-> StoredMetadata(args.request_metadata)]

\* A log_request that writes whatever the setting says.
LogRequestAlways(rows, now, args) ==
    IF ~database_writable THEN rows
    ELSE Append(rows, RequestLogRow(Len(rows) + 1, now, args))

\* A log_request that keeps only the latest row of the table.
LogRequestReplacing(rows, now, args) ==
    IF ~request_logging_enabled THEN rows
    ELSE IF ~database_writable THEN rows
    ELSE <<RequestLogRow(Len(rows) + 1, now, args)>>

\* UsageTrackerService.log_request: nothing when logging is off, a row
\* when the INSERT succeeds, nothing (the error is swallowed) when it fails.
LogRequestAt(rows, now, args) ==
    IF ~request_logging_enabled THEN rows
    ELSE IF ~database_writable THEN rows
    ELSE Append(rows, RequestLogRow(Len(rows) + 1, now, args))

\* if api_key_hash: ... (None and the empty string select every row)
Truthy(text) == text # None /\ text # ""

\* ORDER BY timestamp DESC: log_request stamps its rows with a clock that
\* has moved on since the previous row, so the order is the reverse of the
\* insertion order.
NewestFirst(rows) == [i \in 1..Len(rows) |-> rows[Len(rows) + 1 - i]]

\* LIMIT n of SQLite: the first n rows, and every row when n is negative.
SqlLimit(rows, limit) ==
    IF limit < 0 THEN rows ELSE SubSeq(rows, 1, Min(limit, Len(rows)))

\* UsageTrackerService.get_recent_requests
GetRecentRequests(rows, limit, api_key_hash) ==
    LET OfKey(row) == row.api_key_hash = api_key_hash
        selected == IF Truthy(api_key_hash) THEN SelectSeq(rows, OfKey) ELSE rows
    IN  SqlLimit(NewestFirst(selected), limit)

\* request.args.get("limit", 50, type=int): 50 when the parameter is absent.
LimitParam(limit) == IF limit = Null THEN 50 ELSE limit[1]

\* GET /usage/recent
RecentRequestsRoute(rows, limit) ==
    LET limit_param == Min(LimitParam(limit), RecentCap)
        recent_requests_list == GetRecentRequests(rows, limit_param, None)
    IN  [count |-> Len(recent_requests_list), requests |-> recent_requests_list]

\* A WHERE clause that forgets the model filter.
RowMatchesAnyModel(row, cutoff, api_key_hash, model_name) ==
    /\ row.timestamp >= cutoff
    /\ Truthy(api_key_hash) => row.api_key_hash = api_key_hash

\* The WHERE clause of get_usage_summary.
RowMatches(row, cutoff, api_key_hash, model_name) ==
    /\ row.timestamp >= cutoff
    /\ Truthy(api_key_hash) => row.api_key_hash = api_key_hash
    /\ Truthy(model_name) => row.model_name = model_name

\* The sum of numbers[lo..hi], by halves.
RECURSIVE SumRange(_, _, _)
SumRange(numbers, lo, hi) ==
    IF lo > hi THEN 0
    ELSE IF lo = hi THEN numbers[lo]
    ELSE LET mid == (lo + hi) \div 2
         IN  SumRange(numbers, lo, mid) + SumRange(numbers, mid + 1, hi)

\* The sum of a column over rows.
SumOver(rows, column) ==
    SumRange([i \in 1..Len(rows) |-> rows[i][column]], 1, Len(rows))

\* SUM(column) of SQLite over rows: NULL over no rows.
SqlSum(rows, column) ==
    IF rows = <<>> THEN Null ELSE Some(SumOver(rows, column))

\* SUM(cost_usd): the NULL costs are skipped, NULL when nothing is left.
SqlSumCost(rows) ==
    LET HasCost(row) == row.cost_usd # Null
        priced == SelectSeq(rows, HasCost)
    IN  IF priced = <<>> THEN Null
        ELSE Some(SumRange([i \in 1..Len(priced) |-> priced[i].cost_usd[1]], 1,
                           Len(priced)))

\* SUM(CASE WHEN condition THEN 1 ELSE 0 END): NULL over no rows.
SqlCountCached(rows) ==
    LET IsCached(row) == row.cached = 1
    IN  IF rows = <<>> THEN Null ELSE Some(Len(SelectSeq(rows, IsCached)))
SqlCountErrors(rows) ==
    LET IsError(row) == row.status_code >= 400
    IN  IF rows = <<>> THEN Null ELSE Some(Len(SelectSeq(rows, IsError)))

\* AVG(latency_ms) in 1/100 ms, rounded: NULL over no rows.
SqlAvgLatency(rows) ==
    IF rows = <<>> THEN Null
    ELSE Some(RoundDiv(100 * SumOver(rows, "latency_ms"), Len(rows)))

\* The GROUP BY model_name rows of the breakdown (their order is left out).
ModelBreakdown(rows) ==
    {LET OfModel(row) == row.model_name = m
         group == SelectSeq(rows, OfModel)
     IN  [model_name |-> m, requests |-> Len(group),
          tokens |-> SumOver(group, "total_tokens"),
          cost_usd |-> SqlSumCost(group), avg_latency_ms |-> SqlAvgLatency(group)] :
     m \in {rows[i].model_name : i \in 1..Len(rows)}}

\* An ORDER BY that lists the groups by ascending request count.
OrderByRequestsAsc(groups) ==
    {order \in [1..Cardinality(groups) -> groups] :
        /\ \A i, j \in DOMAIN order : i # j => order[i] # order[j]
        /\ \A i, j \in DOMAIN order : i < j => order[i].requests <= order[j].requests}

\* ORDER BY requests DESC: the lists of the groups the database may return,
\* one for each order of the groups of equal request counts.
OrderByRequestsDesc(groups) ==
    {order \in [1..Cardinality(groups) -> groups] :
        /\ \A i, j \in DOMAIN order : i # j => order[i] # order[j]
        /\ \A i, j \in DOMAIN order : i < j => order[i].requests >= order[j].requests}

\* UsageTrackerService.get_usage_summary: the summaries the call may
\* return, one for each list the by-model query may give. days and the
\* timestamps are in ticks of the clock; avg_latency_ms is in 1/100 ms and
\* cache_hit_rate in 1/100 percent (round(x, 2)).
GetUsageSummary(rows, now, api_key_hash, days, model_name) ==
    LET cutoff == now - days
        InWindow(row) == RowMatches(row, cutoff, api_key_hash, model_name)
        matching == SelectSeq(rows, InWindow)
        total_requests == Len(matching)
        cached_requests == SqlCountCached(matching)
        totals_row ==
           [requests |-> total_requests,
            prompt_tokens |-> OrZero(SqlSum(matching, "prompt_tokens")),
            completion_tokens |-> OrZero(SqlSum(matching, "completion_tokens")),
            total_tokens |-> OrZero(SqlSum(matching, "total_tokens")),
            cost_usd |-> OrZero(SqlSumCost(matching)),
            avg_latency_ms |-> OrZero(SqlAvgLatency(matching)),
            cached_requests |-> OrZero(cached_requests),
            error_requests |-> OrZero(SqlCountErrors(matching)),
            cache_hit_rate |->
              RoundDiv(OrZero(cached_requests) * 10000,
                       Max(IF total_requests = 0 THEN 1 ELSE total_requests, 1))]
    IN  {[period_days |-> days, totals |-> totals_row, by_model |-> model_breakdown] :
           model_breakdown \in OrderByRequestsDesc(ModelBreakdown(matching))}

\* The rows the ledger holds when the behaviour starts: none, one, or one
\* more than the cap of the recent-requests route.
InitialRowCounts == {0, 1, RecentCap + 1}
StoredRows(n) ==
    [i \in 1..n |->
       RequestLogRow(i, i, LogArgs("A", <<1, 1, 2>>, Null, 10, 200, FALSE, None, "gpt",
                                   None, NoMetadata))]

RouteLimits == {Null, Some(-1), Some(0), Some(1), Some(500)}
WindowDays == {0, 1, 1000}
ModelFilters == {None, "A", "C"}
KeyFilters == {None, "key1"}

NoLedgerCall == [op |-> "none", arg |-> <<>>, result |-> <<>>, logs |-> 0]

InitLedger ==
    /\ request_logging_enabled \in BOOLEAN
    /\ database_writable \in BOOLEAN
    /\ metrics_enabled = TRUE
    /\ ledger \in {StoredRows(n) : n \in InitialRowCounts}
    /\ clock = Len(ledger) + 1
    /\ ledger_call = NoLedgerCall
    /\ log_workers = <<>>
    /\ database_lock = {}
    /\ completion_call = <<>>
    /\ available_models = EmptyCatalog
    /\ default_model_name = None
    /\ global_fallback_models = <<>>
    /\ requests = <<>>
    /\ request_observations = <<>>
    /\ active_requests_gauge = <<>>
    /\ backend_calls = <<>>
    /\ last_reload = <<>>
    /\ config_file = <<>>
    /\ ResolverIdle /\ ReloadIdle

ledger_frame == <<registry, plan, reload_vars, log_workers, database_lock,
                  completion_call,
                  request_logging_enabled, metrics_enabled,
                  database_writable, requests, request_observations,
                  active_requests_gauge, backend_calls, last_reload, config_file>>

\* log_request(**args) at the time of the clock, which moves on.
LogRequestCall(args) ==
    /\ ledger_call.logs < MaxAppends
    /\ ledger' = LogRequestAt(ledger, clock, args)
    /\ clock' = clock + 1
    /\ ledger_call' = [op |-> "log", arg |-> args,
                       result |-> [appended |-> Len(ledger') = Len(ledger) + 1],
                       logs |-> ledger_call.logs + 1]
    /\ UNCHANGED ledger_frame

\* log_request(**args) followed on the same thread by
\* get_recent_requests(limit=1).
LogThenRecent(args) ==
    /\ ledger_call.logs < MaxAppends
    /\ ledger' = LogRequestAt(ledger, clock, args)
    /\ clock' = clock + 1
    /\ ledger_call' = [op |-> "log_then_recent", arg |-> args,
                       result |-> [appended |-> Len(ledger') = Len(ledger) + 1,
                                   rows |-> GetRecentRequests(ledger', 1, None)],
                       logs |-> ledger_call.logs + 1]
    /\ UNCHANGED ledger_frame

\* GET /usage/recent?limit=...
RecentRoute(limit) ==
    /\ ledger_call' = [op |-> "recent_route", arg |-> limit,
                       result |-> RecentRequestsRoute(ledger, limit),
                       logs |-> ledger_call.logs]
    /\ UNCHANGED <<ledger, clock, ledger_frame>>

\* get_usage_summary(api_key_hash, days, model_name)
UsageSummaryCall(api_key_hash, days, model_name) ==
    /\ \E summary \in GetUsageSummary(ledger, clock, api_key_hash, days, model_name) :
          ledger_call' = [op |-> "summary",
                          arg |-> [api_key_hash |-> api_key_hash, days |-> days,
                                   model_name |-> model_name, now |-> clock],
                          result |-> summary,
                          logs |-> ledger_call.logs]
    /\ UNCHANGED <<ledger, clock, ledger_frame>>

NextLedger ==
    \/ \E args \in LedgerArgs : LogRequestCall(args)
    \/ \E args \in LedgerArgs : LogThenRecent(args)
    \/ \E limit \in RouteLimits : RecentRoute(limit)
    \/ \E api_key_hash \in KeyFilters, days \in WindowDays, model_name \in ModelFilters :
          UsageSummaryCall(api_key_hash, days, model_name)

SpecLedger == InitLedger /\ [][NextLedger]_vars

\* C17: with request logging disabled, log_request is a no-op: whatever
\* is called, the ledger holds exactly the records it held before, and the
\* recent-requests and summary queries return what they returned before.
C17_DisabledLoggingIsNoOp ==
    [][~request_logging_enabled =>
          /\ ledger' = ledger
          /\ GetRecentRequests(ledger', RecentCap, None)
               = GetRecentRequests(ledger, RecentCap, None)
          /\ GetUsageSummary(ledger', clock, None, 1000, None)
               = GetUsageSummary(ledger, clock, None, 1000, None)]_vars

\* C17's case: logging is disabled, log_request was called on a ledger of
\* one row, and the ledger still holds that one row.
C17_Witness ==
    /\ ~request_logging_enabled
    /\ database_writable
    /\ ledger_call.op = "log"
    /\ ledger = StoredRows(1)

\* C18: whatever limit is requested (above the cap, zero, negative, none)
\* and however many rows are stored, GET /usage/recent returns at most
\* RecentCap records.
C18_RecentReturnsAtMostCap ==
    ledger_call.op = "recent_route" =>
        /\ ledger_call.result.count <= RecentCap
        /\ Len(ledger_call.result.requests) <= RecentCap

C20_LoggedRecordReadsBackEqual ==
    (ledger_call.op = "log_then_recent" /\ ledger_call.result.appended) =>
        /\ Len(ledger_call.result.rows) = 1
        /\ LET row == ledger_call.result.rows[1]
               args == ledger_call.arg
           IN  /\ row.id = Len(ledger)
               /\ row.api_key_hash = args.api_key_hash
               /\ row.model_name = args.model_name
               /\ row.provider_model = args.provider_model
               /\ row.prompt_tokens = args.prompt_tokens
               /\ row.completion_tokens = args.completion_tokens
               /\ row.total_tokens = args.total_tokens
               /\ row.cost_usd = args.cost_usd
               /\ row.latency_ms = args.latency_ms
               /\ row.status_code = args.status_code
               /\ row.cached = (IF args.cached THEN 1 ELSE 0)
               /\ row.error_message = args.error_message
               /\ row.request_metadata = args.request_metadata

\* C21: the ledger is append-only: whatever is called (log_request,
\* get_usage_summary, get_recent_requests), every record that was in the
\* ledger is still there with the same fields, the number of records does
\* not decrease, and the ids are in strictly increasing order.
C21_LedgerIsAppendOnly ==
    [][/\ Len(ledger') >= Len(ledger)
       /\ SubSeq(ledger', 1, Len(ledger)) = ledger
       /\ \A i \in 1..(Len(ledger') - 1) : ledger'[i].id < ledger'[i + 1].id]_vars

\* C21's case: two records were appended to a ledger of one record, which
\* is still the first of the three.
C21_Witness ==
    /\ ledger_call.logs = 2
    /\ Len(ledger) = 3
    /\ ledger[1] = StoredRows(1)[1]
    /\ ledger[3].id = 3


-----------------------------------------------------------------------------
(* SpecAppend: log_request on several worker threads. Each thread has its  *)
(* own sqlite3 connection (thread-local storage) on the one database file, *)
(* and SQLite lets one connection write at a time.                         *)

\* The worker threads that log a request each.
MaxLogWorkers == 3
LogWorkers == 1..MaxLogWorkers

IdleWorker ==
    [pc |-> "idle", args |-> CHOOSE args \in LedgerArgs : TRUE, timestamp |-> 0,
     outcome |-> "none"]

InitAppend ==
    /\ request_logging_enabled = TRUE
    /\ metrics_enabled = TRUE
    /\ database_writable = TRUE
    /\ ledger = <<>>
    /\ clock = 1
    /\ ledger_call = NoLedgerCall
    /\ log_workers = [w \in LogWorkers |-> IdleWorker]
    /\ database_lock = {}
    /\ completion_call = <<>>
    /\ available_models = EmptyCatalog
    /\ default_model_name = None
    /\ global_fallback_models = <<>>
    /\ requests = <<>>
    /\ request_observations = <<>>
    /\ active_requests_gauge = <<>>
    /\ backend_calls = <<>>
    /\ last_reload = <<>>
    /\ config_file = <<>>
    /\ ResolverIdle /\ ReloadIdle

append_frame == <<registry, plan, reload_vars, request_logging_enabled, metrics_enabled,
                  database_writable, requests, request_observations,
                  active_requests_gauge, backend_calls, last_reload, config_file,
                  ledger_call, completion_call>>

\* Lines 100-128: logging is enabled, the thread gets its connection and
\* builds the values of the INSERT, the timestamp among them.
WorkerLogs(w, args) ==
    /\ log_workers[w].pc = "idle"
    /\ request_logging_enabled
    /\ log_workers' = [log_workers EXCEPT ![w] =
          [@ EXCEPT !.pc = "insert", !.args = args, !.timestamp = clock]]
    /\ clock' = clock + 1
    /\ UNCHANGED <<ledger, database_lock, append_frame>>

\* cursor.execute(INSERT ...): the connection takes the write lock of the
\* database file, which no other connection holds.
WorkerInserts(w) ==
    /\ log_workers[w].pc = "insert"
    /\ database_lock = {}
    /\ database_lock' = {w}
    /\ log_workers' = [log_workers EXCEPT ![w] = [@ EXCEPT !.pc = "commit"]]
    /\ UNCHANGED <<ledger, clock, append_frame>>

\* cursor.execute(INSERT ...) while another connection holds the write lock
\* for longer than the connection's busy timeout: sqlite3.OperationalError
\* (database is locked), caught and logged at lines 131-132.
WorkerBusy(w) ==
    /\ log_workers[w].pc = "insert"
    /\ database_lock # {}
    /\ log_workers' = [log_workers EXCEPT ![w] =
          [@ EXCEPT !.pc = "done", !.outcome = "swallowed"]]
    /\ UNCHANGED <<ledger, clock, database_lock, append_frame>>

\* connection.commit(): the row is in the table and the lock is released.
WorkerCommits(w) ==
    /\ log_workers[w].pc = "commit"
    /\ ledger' = Append(ledger, RequestLogRow(Len(ledger) + 1, log_workers[w].timestamp,
                                              log_workers[w].args))
    /\ database_lock' = {}
    /\ log_workers' = [log_workers EXCEPT ![w] =
          [@ EXCEPT !.pc = "done", !.outcome = "stored"]]
    /\ UNCHANGED <<clock, append_frame>>

NextAppend ==
    \/ \E w \in LogWorkers, args \in LedgerArgs : WorkerLogs(w, args)
    \/ \E w \in LogWorkers : WorkerInserts(w)
    \/ \E w \in LogWorkers : WorkerBusy(w)
    \/ \E w \in LogWorkers : WorkerCommits(w)

SpecAppend == InitAppend /\ [][NextAppend]_vars

\* C22: when the workers have appended their records concurrently, each on
\* its own connection, the ledger holds exactly one new record per worker,
\* equal to the record that worker appended: none lost, duplicated or mixed.
C22_ConcurrentAppendsAllStored ==
    (\A w \in LogWorkers : log_workers[w].pc = "done") =>
        /\ Len(ledger) = Cardinality(LogWorkers)
        /\ \A w \in LogWorkers :
             Cardinality({i \in 1..Len(ledger) :
                            ledger[i] = RequestLogRow(ledger[i].id,
                                                      log_workers[w].timestamp,
                                                      log_workers[w].args)}) = 1

-----------------------------------------------------------------------------
(* SpecKwargs: the arguments LLMRouterService.generate_chat_completion     *)
(* hands to litellm.completion, from the payload of a chat request and the *)
(* model_config the name resolves to.                                      *)

\* GatewaySettings: the defaults of the fields generate_chat_completion reads.
default_timeout_seconds == 60
default_max_retries == 2
cache_default_ttl_seconds == 3600
settings_cache_enabled == TRUE

\* The keys of the payload the route reads itself, and those it passes on.
HANDLED_PARAMETERS == {"model", "messages", "temperature", "max_tokens", "stream"}
PASSTHROUGH_PARAMETERS ==
    {"response_format", "tools", "tool_choice", "top_p", "presence_penalty",
     "frequency_penalty", "stop", "logprobs", "top_logprobs", "n", "seed", "user",
     "logit_bias", "parallel_tool_calls"}

\* dict.get(key) and dict.get(key, default): None is Null here.
Get(dict, key) == IF key \in DOMAIN dict THEN Some(dict[key]) ELSE Null
OrDefault(nullable, default) == IF nullable = Null THEN default ELSE nullable[1]

\* _extract_additional_parameters: the payload restricted to the
\* pass-through keys it holds.
ExtractAdditionalParameters(request_payload) ==
    [param_name \in PASSTHROUGH_PARAMETERS \cap DOMAIN request_payload |->
        request_payload[param_name]]

\* if max_tokens: (None and 0 are false, every other number is true)
NumberIsTrue(nullable) == nullable # Null /\ nullable[1] # 0
\* if api_base_url: (None and the empty string are false)
TextIsTrue(nullable) == nullable # Null /\ nullable[1] # ""

\* The completion_kwargs of lines 223-255: the fixed keys, then fallbacks,
\* cache, max_tokens, api_base and api_key under their conditions, then
\* update(additional_params), whose keys win.
CompletionKwargs(litellm_model_id, model_config, fallback_model_ids, request_payload, max_tokens, stream, additional_params) ==
    LET fixed ==
            [model |-> litellm_model_id,
             messages |-> request_payload["messages"],
             temperature |-> OrDefault(Get(request_payload, "temperature"), "0.7"),
             stream |-> stream,
             timeout |-> OrDefault(Get(model_config, "timeout_seconds"),
                                   default_timeout_seconds),
             num_retries |-> OrDefault(Get(model_config, "max_retries"),
                                       default_max_retries)]
        fallbacks == IF fallback_model_ids # <<>>
                     THEN ("fallbacks" :> fallback_model_ids) ELSE <<>>
        cache == IF OrDefault(Get(model_config, "cache_enabled"), TRUE)
                    /\ settings_cache_enabled
                 THEN ("cache" :> [ttl |-> OrDefault(Get(model_config, "cache_ttl_seconds"),
                                                     cache_default_ttl_seconds)])
                 ELSE <<>>
        tokens == IF NumberIsTrue(max_tokens)
                  THEN ("max_tokens" :> max_tokens[1]) ELSE <<>>
        api_base_url == Get(model_config, "api_base")
        custom == IF model_config.provider = "custom_openai" /\ TextIsTrue(api_base_url)
                  THEN ("api_base" :> api_base_url[1])
                       @@ ("api_key" :> OrDefault(Get(model_config, "api_key"),
                                                  "not-needed"))
                  ELSE <<>>
    IN  additional_params @@ custom @@ tokens @@ cache @@ fallbacks @@ fixed

\* A model_config of the catalog with its optional keys: those of a
\* nullable that is Null are absent from the mapping.
RECURSIVE WithOptionalKeys(_, _, _)
WithOptionalKeys(model_config, keys, nullable) ==
    IF keys = {} THEN model_config
    ELSE LET key == CHOOSE k \in keys : TRUE
             rest == WithOptionalKeys(model_config, keys \ {key}, nullable)
         IN  IF nullable[key] = Null THEN rest ELSE (key :> nullable[key][1]) @@ rest

KwargsConfigs ==
    {WithOptionalKeys(ModelConfig("A", provider, "gpt", fallbacks),
                      {"api_base", "api_key", "timeout_seconds"},
                      [api_base |-> api_base, api_key |-> api_key,
                       timeout_seconds |-> timeout_seconds]) :
        provider \in Providers,
        fallbacks \in {<<>>, <<"A">>},
        api_base \in {Null, Some(""), Some("http://local")},
        api_key \in {Null, Some("secret")},
        timeout_seconds \in {Null, Some(30)}}

\* The payloads of a chat request: messages, and any of the other keys, a
\* caller's api_base and api_key among those the route does not know.
MaxTokensValues == {-1, 0, 256}
RequestPayloads ==
    {WithOptionalKeys([messages |-> "messages"],
                      {"model", "max_tokens", "top_p", "api_base", "api_key"},
                      [model |-> model, max_tokens |-> max_tokens, top_p |-> top_p,
                       api_base |-> api_base, api_key |-> api_key]) :
        model \in {Null, Some("A"), Some(Ghost)},
        max_tokens \in {Null} \cup {Some(n) : n \in MaxTokensValues},
        top_p \in {Null, Some("0.9")},
        api_base \in {Null, Some("http://caller")},
        api_key \in {Null, Some("caller-key")}}

NoCompletionCall == <<>>

InitKwargs ==
    /\ \E model_config \in KwargsConfigs : available_models = [n \in {"A"} |-> model_config]
    /\ default_model_name = "A"
    /\ global_fallback_models = <<>>
    /\ completion_call = NoCompletionCall
    /\ request_logging_enabled = TRUE
    /\ metrics_enabled = TRUE
    /\ config_file = <<>>
    /\ last_reload = <<>>
    /\ requests = <<>>
    /\ ledger = <<>>
    /\ request_observations = <<>>
    /\ active_requests_gauge = <<>>
    /\ backend_calls = <<>>
    /\ log_workers = <<>>
    /\ database_lock = {}
    /\ database_writable = TRUE
    /\ clock = 0
    /\ ledger_call = <<>>
    /\ ResolverIdle /\ ReloadIdle

\* A chat request up to litellm.completion: the route reads model,
\* max_tokens and stream from the payload and extracts the pass-through
\* parameters; generate_chat_completion resolves the name (ValueError when
\* it fails) and builds the arguments of the one backend call.
ChatCompletionCall(request_payload) ==
    /\ completion_call = NoCompletionCall
    /\ LET model_name == OrDefault(Get(request_payload, "model"), None)
           max_tokens_value == Get(request_payload, "max_tokens")
           stream_enabled == OrDefault(Get(request_payload, "stream"), FALSE)
           additional_params == ExtractAdditionalParameters(request_payload)
           p == CompletionPlan(model_name, available_models, default_model_name,
                               global_fallback_models)
       IN  completion_call' =
             IF ~p.ok
             THEN [called |-> FALSE, request_payload |-> request_payload,
                   model_config |-> NoConfig, completion_kwargs |-> <<>>]
             ELSE [called |-> TRUE, request_payload |-> request_payload,
                   model_config |-> p.model_config,
                   completion_kwargs |->
                       CompletionKwargs(p.model, p.model_config, p.fallbacks,
                                        request_payload, max_tokens_value,
                                        stream_enabled, additional_params)]
    /\ UNCHANGED <<registry, plan, reload_vars, log_workers, database_lock,
                   request_logging_enabled, metrics_enabled, database_writable,
                   requests, ledger, request_observations, active_requests_gauge,
                   backend_calls, last_reload, config_file, clock, ledger_call>>

NextKwargs == \E request_payload \in RequestPayloads : ChatCompletionCall(request_payload)

SpecKwargs == InitKwargs /\ [][NextKwargs]_vars

\* The backend was called for the request.
BackendCalled == completion_call # NoCompletionCall /\ completion_call.called

\* C26: max_tokens is among the arguments of the backend call if and only
\* if the caller supplied a positive value; for an absent, zero or negative
\* value the call carries no max_tokens.
C26_MaxTokensOnlyWhenPositive ==
    BackendCalled =>
        LET max_tokens == Get(completion_call.request_payload, "max_tokens")
        IN  ("max_tokens" \in DOMAIN completion_call.completion_kwargs)
              <=> (max_tokens # Null /\ max_tokens[1] > 0)

\* C27: the backend call for a custom_openai entry carries api_base and
\* api_key (the entry's key, or "not-needed" when it has none); the call
\* for an entry of any other provider carries neither, whatever the entry
\* and the caller's payload hold.
C27_ApiBaseAndKeyOnlyForCustomOpenAI ==
    BackendCalled =>
        LET kwargs == completion_call.completion_kwargs
            model_config == completion_call.model_config
        IN  IF model_config.provider = "custom_openai"
            THEN /\ {"api_base", "api_key"} \subseteq DOMAIN kwargs
                 /\ kwargs["api_key"] = OrDefault(Get(model_config, "api_key"),
                                                  "not-needed")
            ELSE {"api_base", "api_key"} \cap DOMAIN kwargs = {}

====
